---- MODULE Spec2Model ----
(***************************************************************************)
(* A model of src/markdown_sync.py: the markdown renderer and parser, the  *)
(* reconciler sync_markdown_to_linear, and the file watcher started by     *)
(* start_watching, together with the parts of src/linear_client.py the     *)
(* reconciler calls.                                                       *)
(*                                                                         *)
(* Text is a sequence of one-character strings, so that rendering and the  *)
(* regular expression of the parser are computed character by character.   *)
(***************************************************************************)
EXTENDS Naturals, Sequences, FiniteSets, TLC

(***************************************************************************)
(* Bounds of the model.                                                    *)
(***************************************************************************)
MaxIssues == 2      \* length of the issue list handed to the renderer
MaxFaults == 1      \* remote / library calls that fail in one behaviour
MaxSyncs == 2       \* manual sync_markdown_to_linear calls in one behaviour
MaxObservers == 2   \* Observer objects created in one behaviour
MaxEvents == 2      \* file system events delivered in one behaviour
MaxCreates == 1     \* create_issue calls that succeed in one behaviour

(***************************************************************************)
(* Text.                                                                   *)
(***************************************************************************)
NL == "\n"
SP == " "

\* Python's str \s for the characters of the model's alphabet.
IsSpace(c) == c \in {SP, NL, "\t"}

MARK_OPEN == <<"-", " ", "[">>
ID_OPEN == <<"<", "!", "-", "-", " ", "i", "d", ":">>
ID_CLOSE == <<" ", "-", "-", ">">>
CHECKED == <<"-", " ", "[", "x", "]">>
UNCHECKED == <<"-", " ", "[", " ", "]">>
RULE == <<"-", "-", "-">>
GEN_OPEN == <<"*", "G", "e", "n", "e", "r", "a", "t", "e", "d", ":", " ">>
\* datetime.now().strftime('%Y-%m-%d %H:%M:%S'): digits, '-', ':' and one space.
TIMESTAMP == <<"2", "0", "2", "6", "-", "0", "1", "-", "0", "1", " ", "0", "0", ":", "0", "0", ":", "0", "0">>
MY_TITLE == <<"M", "y", " ", "I", "s", "s", "u", "e", "s">>
MY_DESC == <<"A", "l", "l", " ", "i", "s", "s", "u", "e", "s", " ", "a", "s", "s", "i", "g", "n", "e", "d", " ", "t", "o", " ", "m", "e">>
NA == <<"N", "/", "A">>
NO_TITLE == <<"N", "o", " ", "t", "i", "t", "l", "e">>
UNKNOWN == <<"U", "n", "k", "n", "o", "w", "n">>

\* The keys of `grouped`, in the insertion order of the dict literal.
StateTypes == <<"backlog", "unstarted", "started", "completed", "canceled">>

\* state_type.title() for the five keys of `grouped`.
Heading(k) ==
    CASE k = "backlog" -> <<"#", "#", " ", "B", "a", "c", "k", "l", "o", "g">>
      [] k = "unstarted" -> <<"#", "#", " ", "U", "n", "s", "t", "a", "r", "t", "e", "d">>
      [] k = "started" -> <<"#", "#", " ", "S", "t", "a", "r", "t", "e", "d">>
      [] k = "completed" -> <<"#", "#", " ", "C", "o", "m", "p", "l", "e", "t", "e", "d">>
      [] k = "canceled" -> <<"#", "#", " ", "C", "a", "n", "c", "e", "l", "e", "d">>

\* None, as the value of a dict entry.
NONE == "None"

\* A dict entry that may be absent: dict.get(key, default).
Absent == [has |-> FALSE, v |-> <<>>]
Val(x) == [has |-> TRUE, v |-> x]
Get(field, default) == IF field.has THEN field.v ELSE default

RECURSIVE Join(_)
\* "\n".join(lines)
Join(lines) ==
    IF lines = <<>> THEN <<>>
    ELSE IF Len(lines) = 1 THEN lines[1]
    ELSE lines[1] \o <<NL>> \o Join(Tail(lines))

RECURSIVE Flatten(_)
Flatten(ss) == IF ss = <<>> THEN <<>> ELSE ss[1] \o Flatten(Tail(ss))

(***************************************************************************)
(* The renderer.  An issue is a dict: [id, identifier, title, state],      *)
(* each entry possibly absent; state, when present, is a dict [name, type].*)
(***************************************************************************)
\* issue.get('state', {}).get('type', 'unstarted')
state_type_of(issue) ==
    IF issue.state.has THEN Get(issue.state.v.type, "unstarted") ELSE "unstarted"

InStateTypes(k) == \E i \in 1..Len(StateTypes) : StateTypes[i] = k

\* Fault injection: an unknown state type goes to the backlog group.
BucketBacklog(issue) ==
    IF InStateTypes(state_type_of(issue)) THEN state_type_of(issue) ELSE "backlog"

\* The bucket an issue is appended to.
Bucket(issue) ==
    IF InStateTypes(state_type_of(issue)) THEN state_type_of(issue) ELSE "unstarted"

\* grouped[k] before the empty groups are removed.
GroupOf(issueList, k) == SelectSeq(issueList, LAMBDA i : Bucket(i) = k)

\* Fault injection: the non-empty groups in alphabetical order.
GroupsAlphabetical(issueList) ==
    SelectSeq(<<"backlog", "canceled", "completed", "started", "unstarted">>,
              LAMBDA k : GroupOf(issueList, k) # <<>>)

\* The keys of the returned dict, in order: the non-empty groups.
group_issues_by_state(issueList) ==
    SelectSeq(StateTypes, LAMBDA k : GroupOf(issueList, k) # <<>>)

\* Fault injection: only the completed type gives a checked box.
CheckboxCompletedOnly(issue) ==
    IF state_type_of(issue) = "completed" THEN CHECKED ELSE UNCHECKED

\* _get_checkbox(issue)
get_checkbox(issue) ==
    IF state_type_of(issue) \in {"completed", "canceled"} THEN CHECKED ELSE UNCHECKED

\* The line item of one issue.
IssueLine(issue) ==
    get_checkbox(issue) \o <<" ", "*", "*">> \o Get(issue.identifier, NA)
      \o <<"*", "*", ":", " ">> \o Get(issue.title, NO_TITLE)
      \o <<" ", "*", "[">>
      \o (IF issue.state.has THEN Get(issue.state.v.name, UNKNOWN) ELSE UNKNOWN)
      \o <<"]", "*", " ">> \o ID_OPEN \o Get(issue.id, <<>>) \o ID_CLOSE

\* The lines of one section: heading, blank, the items, blank.
SectionLines(issueList, k) ==
    <<Heading(k), <<>>>>
      \o [i \in 1..Len(GroupOf(issueList, k)) |-> IssueLine(GroupOf(issueList, k)[i])]
      \o << <<>> >>

generate_markdown_content(title, issueList, description) ==
    LET head == << <<"#", " ">> \o title, <<>>,
                   GEN_OPEN \o TIMESTAMP \o <<"*">>, <<>> >>
        desc == IF description # <<>> THEN <<description, <<>>>> ELSE <<>>
        keys == group_issues_by_state(issueList)
        body == Flatten([j \in 1..Len(keys) |-> SectionLines(issueList, keys[j])])
    IN  Join(head \o desc \o <<RULE, <<>>>> \o body)

(***************************************************************************)
(* The parser: re.finditer(r'- \[([ x])\].*?<!-- id:(\S+) -->', content).  *)
(***************************************************************************)
\* The literal lit occurs in s at position p.
LitAt(s, p, lit) ==
    /\ p + Len(lit) - 1 <= Len(s)
    /\ \A i \in 1..Len(lit) : s[p + i - 1] = lit[i]

\* '- \[([ x])\]' matches at p.
MarkerAt(s, p) == s[p] = "-" /\ (LitAt(s, p, CHECKED) \/ LitAt(s, p, UNCHECKED))

\* The least element of a non-empty set of numbers.
Min(S) == CHOOSE x \in S : \A y \in S : x <= y

\* The positions of s that hold a \s character.
Spaces(s) == {i \in 1..Len(s) : IsSpace(s[i])}

\* The last position of the longest run of \S characters starting at r
\* (r - 1 when there is none); sp is Spaces(s).
RunEnd(s, sp, r) == Min({i \in sp : i >= r} \cup {Len(s) + 1}) - 1

\* '<!-- id:(\S+) -->' matches at q.  \S+ is greedy, but the character after
\* it must be a space, so only the longest run can be followed by ' -->'.
CommentAt(s, sp, q) ==
    /\ s[q] = "<"
    /\ LitAt(s, q, ID_OPEN)
    /\ LET e == RunEnd(s, sp, q + Len(ID_OPEN))
       IN  e >= q + Len(ID_OPEN) /\ LitAt(s, e + 1, ID_CLOSE)

\* Fault injection: '.' also matches a newline (re.DOTALL).
LineEndDotAll(s, sp, q) == Len(s) + 1

\* The position of the first newline at or after q (Len(s) + 1 when none).
LineEnd(s, sp, q) == Min({i \in sp : i >= q /\ s[i] = NL} \cup {Len(s) + 1})

\* '.*?' from q: the first position at or after q where the id comment
\* matches, reached over characters other than newline; 0 when there is none.
LazyComment(s, sp, q) ==
    LET found == {i \in q..(LineEnd(s, sp, q) - 1) : CommentAt(s, sp, i)}
    IN  IF found = {} THEN 0 ELSE Min(found)

\* The whole pattern matches from position p.
MatchAt(s, sp, p) == MarkerAt(s, p) /\ LazyComment(s, sp, p + Len(CHECKED)) # 0

RECURSIVE FindAll(_, _, _, _)
\* The matches of finditer from position p on, leftmost first, not
\* overlapping, as the list of updates; starts holds the positions of s
\* where the pattern matches.
FindAll(s, sp, starts, p) ==
    LET rest == {i \in starts : i >= p}
    IN  IF rest = {} THEN <<>>
        ELSE LET m == Min(rest)
                 q == LazyComment(s, sp, m + Len(CHECKED))
                 r == q + Len(ID_OPEN)
                 e == RunEnd(s, sp, r)
             IN  <<[id |-> SubSeq(s, r, e), completed |-> (s[m + Len(MARK_OPEN)] = "x")]>>
                   \o FindAll(s, sp, starts, e + Len(ID_CLOSE) + 1)

\* Fault injection: the matches are collected last first.
ParseTextReversed(content) ==
    LET sp == Spaces(content)
        found == FindAll(content, sp, {i \in 1..Len(content) : MatchAt(content, sp, i)}, 1)
    IN  [n \in DOMAIN found |-> found[Len(found) + 1 - n]]

\* The updates parsed from a text.
ParseText(content) ==
    LET sp == Spaces(content)
    IN  FindAll(content, sp, {i \in 1..Len(content) : MatchAt(content, sp, i)}, 1)


(***************************************************************************)
(* The remote tracker behind LinearClient, and the directory on disk.      *)
(***************************************************************************)
Paths == {"f", "g"}         \* file names as callers pass them, relative to the cwd
AbsPaths == {"/d/f", "/d/g"}  \* the files of the watched directory /d

\* os.path.abspath with the current directory /d.
Abspath(p) ==
    CASE p = "f" -> "/d/f"
      [] p = "g" -> "/d/g"
      [] OTHER -> p
Threads == 0..MaxObservers  \* 0: the caller's thread; k: the thread of observer k

IssueIds == {<<"a">>, <<"b">>, <<"c">>, <<"d">>, <<"e">>}

\* The issues of the remote tracker when a behaviour starts: state type and team.
RemoteInit ==
    [id \in IssueIds |->
        CASE id = <<"a">> -> [type |-> "started", team |-> Val("T1")]
          [] id = <<"b">> -> [type |-> "completed", team |-> Val("T1")]
          [] id = <<"c">> -> [type |-> "backlog", team |-> Val("T1")]
          [] id = <<"d">> -> [type |-> "canceled", team |-> Val("T2")]
          [] id = <<"e">> -> [type |-> "started", team |-> Val("T2")]]

\* get_workflow_states(team_id): the states of a team, in the order returned.
\* T1 has two states of type completed and two of type unstarted; T2 has
\* none of either type.
WorkflowStates(team_id) ==
    IF team_id = "T1"
    THEN <<[id |-> "x1", type |-> "canceled"], [id |-> "p1", type |-> "started"],
           [id |-> "d1", type |-> "completed"], [id |-> "b1", type |-> "backlog"],
           [id |-> "u1", type |-> "unstarted"], [id |-> "d2", type |-> "completed"],
           [id |-> "u2", type |-> "unstarted"]>>
    ELSE <<[id |-> "p2", type |-> "started"], [id |-> "x2", type |-> "canceled"]>>

StateTypeOfId(state_id) ==
    CASE state_id \in {"d1", "d2"} -> "completed"
      [] state_id \in {"u1", "u2"} -> "unstarted"
      [] state_id \in {"x1", "x2"} -> "canceled"
      [] state_id \in {"p1", "p2"} -> "started"
      [] OTHER -> "backlog"

\* current_type in ['completed', 'canceled']
IsCompletedType(type) == type \in {"completed", "canceled"}

\* A line item as the renderer writes it, with the checkbox a human left on it.
EditedLine(id, checked) ==
    (IF checked THEN CHECKED ELSE UNCHECKED)
      \o <<" ", "*", "*", "E", "*", "*", ":", " ", "t", " ", "*", "[", "S", "]", "*", " ">>
      \o ID_OPEN \o id \o ID_CLOSE

\* A document of the given line items, each [id, checked].
EditedDoc(items) ==
    Join(<<RULE, <<>>>> \o [i \in 1..Len(items) |-> EditedLine(items[i].id, items[i].checked)]
           \o << <<>> >>)

VARIABLES
    issues,         \* the issue list handed to the renderer
    parsed,         \* what parse_markdown_file last returned to a direct caller
    team_file,      \* the issues-{name}.md files: name and path of the last call, path -> content
    files,          \* absolute path -> [exists, content]: the files of /d
    linear_client,  \* self.linear_client is set
    sync_on_edit,   \* config value markdown.sync_on_edit
    remote,         \* issue id -> [type, team]: the remote tracker
    run,            \* thread -> the frame of sync_markdown_to_linear on it
    ret,            \* how the last call on the caller's thread ended
    observer,       \* self.observer: 0 for None, else the number of an Observer
    observers,      \* the Observer objects created so far, with their handlers
    faults,         \* calls that have failed so far
    syncs,          \* direct calls of sync_markdown_to_linear so far
    events          \* file system events delivered so far

NoFile == [exists |-> FALSE, content |-> <<>>]
File(text) == [exists |-> TRUE, content |-> text]
NoTeamFile == [name |-> <<>>, filepath |-> <<>>, dir |-> <<>>]

IdleRun ==
    [pc |-> "idle", filepath |-> "f", callback |-> "none", updates |-> <<>>, idx |-> 1,
     team_id |-> "", state_id |-> "", updated_count |-> 0, gets |-> <<>>, upds |-> <<>>]

NoRet == [op |-> "none", raised |-> FALSE, value |-> 0]
Returned(op) == [op |-> op, raised |-> FALSE, value |-> 0]
Raised(op) == [op |-> op, raised |-> TRUE, value |-> 0]

vars == <<issues, parsed, team_file, files, linear_client, sync_on_edit, remote, run, ret,
          observer, observers, faults, syncs, events>>

renderVars == <<issues, parsed, team_file>>
configVars == <<linear_client, sync_on_edit>>
watchVars == <<observer, observers, events>>

(***************************************************************************)
(* sync_markdown_to_linear, one step per remote call.  The frame run[t]    *)
(* holds the locals of the call on thread t: updates, the position idx in  *)
(* the for loop, updated_count; gets and upds log the get_issue and        *)
(* update_issue_state calls of the run.                                    *)
(***************************************************************************)
\* The loop goes on to the next update.
NextUpdate(fr) ==
    [fr EXCEPT !.pc = "get_issue", !.idx = fr.idx + 1, !.team_id = "", !.state_id = ""]

\* os.path.exists(filepath)
Exists(filepath) == files[Abspath(filepath)].exists

\* parse_markdown_file when the read succeeds.
parse_markdown_file(filepath) ==
    IF ~Exists(filepath) THEN <<>> ELSE ParseText(files[Abspath(filepath)].content)

\* Fault injection: the client check is skipped.
ClientAssumed == TRUE

\* if not self.linear_client: raise
ClientConfigured == linear_client

\* Fault injection: an exception of one issue ends the whole for loop.
ExceptAborts(fr) ==
    [fr EXCEPT !.pc = "get_issue", !.idx = Len(fr.updates) + 1, !.team_id = "",
               !.state_id = ""]

\* except Exception as e: print(...), and the loop goes on.
Except(fr) == NextUpdate(fr)

\* The frame at the head of the for loop, after the client check and the parse.
EnterLoop(filepath) ==
    [IdleRun EXCEPT !.pc = "get_issue", !.filepath = filepath,
                    !.updates = parse_markdown_file(filepath)]

\* The update the for loop is at.
Update_(t) == run[t].updates[run[t].idx]

\* Fault injection: the first state of the team when none has the type.
FirstOfTypeOrFirst(states, type, i) ==
    IF \E j \in i..Len(states) : states[j].type = type
    THEN Min({j \in i..Len(states) : states[j].type = type})
    ELSE 1

\* Fault injection: a canceled state also serves where a completed one is
\* looked for.
FirstDoneType(states, type, i) ==
    LET ok == {j \in i..Len(states) :
                  \/ states[j].type = type
                  \/ type = "completed" /\ states[j].type = "canceled"}
    IN  IF ok = {} THEN 0 ELSE Min(ok)

\* Fault injection: the last state of the type, not the first.
LastOfType(states, type, i) ==
    LET ok == {j \in i..Len(states) : states[j].type = type}
    IN  IF ok = {} THEN 0 ELSE CHOOSE j \in ok : \A k \in ok : k <= j

\* next((s for s in states if s['type'] == type), None): 0 stands for None.
RECURSIVE FirstOfType(_, _, _)
FirstOfType(states, type, i) ==
    IF i > Len(states) THEN 0
    ELSE IF states[i].type = type THEN i
    ELSE FirstOfType(states, type, i + 1)

\* The state type the transition needs: mark done, or reopen.
NeededType(should_be_completed) ==
    IF should_be_completed THEN "completed" ELSE "unstarted"

\* Fault injection: mark done without looking at the remote state.
NeedsUpdateUnlessReopen(should_be_completed, is_completed) ==
    \/ should_be_completed
    \/ ~should_be_completed /\ is_completed

\* The two branches that update: intent and remote completion differ.
NeedsUpdate(should_be_completed, is_completed) ==
    \/ should_be_completed /\ ~is_completed
    \/ ~should_be_completed /\ is_completed

\* Fault injection: the team id is used without looking at it.
TeamAssumed(team_id) == TRUE

\* if team_id:
HasTeam(team_id) == team_id # ""

\* Fault injection: the parser opens the file for writing and leaves it
\* empty.
FilesTruncated(filepath) == [files EXCEPT ![Abspath(filepath)] = File(<<>>)]

\* The files after parse_markdown_file: open(filepath, 'r') only reads.
FilesAfterParse(filepath) == files

\* A direct call of sync_markdown_to_linear(filepath) on the caller's thread.
sync_markdown_to_linear(filepath) ==
    /\ run[0].pc = "idle"
    /\ syncs < MaxSyncs
    /\ syncs' = syncs + 1
    /\ \/ /\ ~ClientConfigured                   \* raise Exception(...)
          /\ ret' = Raised("sync")
          /\ run' = [run EXCEPT ![0] = IdleRun]
          /\ UNCHANGED <<faults, files>>
       \/ /\ ClientConfigured                    \* open() or read() raises
          /\ Exists(filepath)
          /\ faults < MaxFaults
          /\ faults' = faults + 1
          /\ ret' = Raised("sync")
          /\ run' = [run EXCEPT ![0] = IdleRun]
          /\ UNCHANGED files
       \/ /\ ClientConfigured
          /\ run' = [run EXCEPT ![0] = EnterLoop(filepath)]
          /\ files' = FilesAfterParse(filepath)
          /\ ret' = NoRet
          /\ UNCHANGED faults
    /\ UNCHANGED <<renderVars, configVars, remote, watchVars>>

\* self.linear_client.get_issue(issue_id) and the choice of the branch.
GetIssue(t) ==
    /\ run[t].pc = "get_issue"
    /\ run[t].idx <= Len(run[t].updates)
    /\ LET issue_id == Update_(t).id
           should_be_completed == Update_(t).completed
           fr == [run[t] EXCEPT !.gets = Append(@, issue_id)]
       IN  \/ /\ faults < MaxFaults              \* the call raises
              /\ faults' = faults + 1
              /\ run' = [run EXCEPT ![t] = Except(fr)]
           \/ /\ issue_id \notin DOMAIN remote   \* no such issue: the query fails
              /\ run' = [run EXCEPT ![t] = Except(fr)]
              /\ UNCHANGED faults
           \/ /\ issue_id \in DOMAIN remote
              /\ LET issue == remote[issue_id]
                     is_completed == IsCompletedType(issue.type)
                     team_id == Get(issue.team, "")
                 IN  run' = [run EXCEPT ![t] =
                         IF NeedsUpdate(should_be_completed, is_completed) /\ team_id = NONE
                         THEN Except(fr)          \* None.get('id'): AttributeError
                         ELSE IF NeedsUpdate(should_be_completed, is_completed)
                                   /\ HasTeam(team_id)
                         THEN [fr EXCEPT !.pc = "get_states", !.team_id = team_id]
                         ELSE NextUpdate(fr)]
              /\ UNCHANGED faults
    /\ UNCHANGED <<renderVars, files, configVars, remote, ret, watchVars, syncs>>

\* self.linear_client.get_workflow_states(team_id) and next(...).
GetStates(t) ==
    /\ run[t].pc = "get_states"
    /\ \/ /\ faults < MaxFaults                  \* the call raises
          /\ faults' = faults + 1
          /\ run' = [run EXCEPT ![t] = Except(run[t])]
       \/ /\ LET states == WorkflowStates(run[t].team_id)
                 i == FirstOfType(states, NeededType(Update_(t).completed), 1)
             IN  run' = [run EXCEPT ![t] =
                     IF i # 0
                     THEN [run[t] EXCEPT !.pc = "update", !.state_id = states[i].id]
                     ELSE NextUpdate(run[t])]
          /\ UNCHANGED faults
    /\ UNCHANGED <<renderVars, files, configVars, remote, ret, watchVars, syncs>>

\* The entry of the log for an update_issue_state call: what was passed,
\* how the call ended, and whether the remote completion differed from the
\* intent when the call was made.
UpdCall(t, outcome) ==
    [id |-> Update_(t).id, completed |-> Update_(t).completed,
     state_id |-> run[t].state_id, outcome |-> outcome,
     needed |-> (Update_(t).id \in DOMAIN remote
                   /\ IsCompletedType(remote[Update_(t).id].type) # Update_(t).completed)]

\* updated_count += 1 after update_issue_state has returned.
CountUpdate(fr) == [fr EXCEPT !.updated_count = @ + 1]

\* Fault injection: the mutation moves every issue of the issue's team.
ApplyStateToTeam(issue_id, state_id) ==
    [id \in DOMAIN remote |->
        IF remote[id].team = remote[issue_id].team
        THEN [remote[id] EXCEPT !.type = StateTypeOfId(state_id)]
        ELSE remote[id]]

\* The remote after issueUpdate(id: issue_id, input: {stateId: state_id}).
ApplyState(issue_id, state_id) ==
    [remote EXCEPT ![issue_id].type = StateTypeOfId(state_id)]

\* self.linear_client.update_issue_state(issue_id, state_id); updated_count += 1.
UpdateIssue(t) ==
    /\ run[t].pc = "update"
    /\ \/ /\ faults < MaxFaults                  \* the call raises
          /\ faults' = faults + 1
          /\ run' = [run EXCEPT ![t] =
                 Except([run[t] EXCEPT !.upds = Append(@, UpdCall(t, "raised"))])]
          /\ UNCHANGED remote
       \/ /\ faults < MaxFaults                  \* returns {success: false}
          /\ faults' = faults + 1
          /\ run' = [run EXCEPT ![t] =
                 NextUpdate(CountUpdate(
                     [run[t] EXCEPT !.upds = Append(@, UpdCall(t, "rejected"))]))]
          /\ UNCHANGED remote
       \/ /\ run' = [run EXCEPT ![t] =       \* returns {success: true}
                 NextUpdate(CountUpdate(
                     [run[t] EXCEPT !.upds = Append(@, UpdCall(t, "applied"))]))]
          /\ remote' = ApplyState(Update_(t).id, run[t].state_id)
          /\ UNCHANGED faults
    /\ UNCHANGED <<renderVars, files, configVars, ret, watchVars, syncs>>

\* The id the tracker gives the k-th issue created through create_issue.
NewId(k) == <<"n", <<"1", "2", "3", "4", "5", "6", "7", "8", "9">>[k]>>

\* The issues created so far.
Created == {id \in DOMAIN remote : id[1] = "n" /\ Len(id) = 2}

\* LinearClient.create_issue(team_id, title, description), called by the
\* window on its own thread: issueCreate adds an issue of the team to the
\* tracker, in a state of the team the tracker chooses.
create_issue(team_id) ==
    /\ Cardinality(Created) < MaxCreates
    /\ \/ /\ faults < MaxFaults                  \* _execute_query raises
          /\ faults' = faults + 1
          /\ UNCHANGED remote
       \/ /\ \E i \in DOMAIN WorkflowStates(team_id) :
                 remote' = [id \in DOMAIN remote \cup {NewId(Cardinality(Created) + 1)} |->
                               IF id \in DOMAIN remote THEN remote[id]
                               ELSE [type |-> WorkflowStates(team_id)[i].type,
                                     team |-> Val(team_id)]]
          /\ UNCHANGED faults
    /\ UNCHANGED <<renderVars, files, configVars, run, ret, watchVars, syncs>>

\* return updated_count, to the direct caller.
Return ==
    /\ run[0].pc = "get_issue"
    /\ run[0].idx > Len(run[0].updates)
    /\ run' = [run EXCEPT ![0].pc = "idle"]
    /\ ret' = [op |-> "sync", raised |-> FALSE, value |-> run[0].updated_count]
    /\ UNCHANGED <<renderVars, files, configVars, remote, watchVars, faults, syncs>>

(***************************************************************************)
(* The reconciler alone: one caller syncing the file f, which is missing   *)
(* or holds any document of up to MaxLines line items over the issues of   *)
(* the remote.                                                             *)
(***************************************************************************)
MaxLines == 3

LineItems == [id : IssueIds, checked : BOOLEAN]

RECURSIVE SeqsUpTo(_, _)
\* The sequences over S of length at most n.
SeqsUpTo(S, n) ==
    IF n = 0 THEN {<<>>}
    ELSE SeqsUpTo(S, n - 1)
           \cup {Append(q, x) : q \in {r \in SeqsUpTo(S, n - 1) : Len(r) = n - 1}, x \in S}

InitSync ==
    /\ issues = <<>>
    /\ parsed = <<>>
    /\ team_file = NoTeamFile
    /\ \E f \in {NoFile} \cup {File(EditedDoc(items)) : items \in SeqsUpTo(LineItems, MaxLines)} :
           files = [p \in AbsPaths |-> IF p = "/d/f" THEN f ELSE NoFile]
    /\ linear_client \in BOOLEAN
    /\ sync_on_edit = TRUE
    /\ remote = RemoteInit
    /\ run = [t \in Threads |-> IdleRun]
    /\ ret = NoRet
    /\ observer = 0
    /\ observers = <<>>
    /\ faults = 0
    /\ syncs = 0
    /\ events = 0

\* A remote whose issues lack the team reference: n is completed and its
\* 'team' is None, o is an empty record; a is a started issue of team T1.
OrphanIds == {<<"a">>, <<"n">>, <<"o">>}
OrphanRemote ==
    [id \in OrphanIds |->
        CASE id = <<"a">> -> [type |-> "started", team |-> Val("T1")]
          [] id = <<"n">> -> [type |-> "completed", team |-> Val(NONE)]
          [] id = <<"o">> -> [type |-> "", team |-> Absent]]

InitOrphan ==
    /\ issues = <<>>
    /\ parsed = <<>>
    /\ team_file = NoTeamFile
    /\ \E items \in SeqsUpTo([id : OrphanIds, checked : BOOLEAN], MaxLines) :
           files = [p \in AbsPaths |-> IF p = "/d/f" THEN File(EditedDoc(items)) ELSE NoFile]
    /\ linear_client = TRUE
    /\ sync_on_edit = TRUE
    /\ remote = OrphanRemote
    /\ run = [t \in Threads |-> IdleRun]
    /\ ret = NoRet
    /\ observer = 0
    /\ observers = <<>>
    /\ faults = 0
    /\ syncs = 0
    /\ events = 0

\* A file that names the issue a only, of the five of the remote.
FrameIds == {<<"a">>}

\* The teams of the remote.
Teams == {"T1", "T2"}

InitFrame ==
    /\ issues = <<>>
    /\ parsed = <<>>
    /\ team_file = NoTeamFile
    /\ \E items \in SeqsUpTo([id : FrameIds, checked : BOOLEAN], MaxLines) :
           files = [p \in AbsPaths |-> IF p = "/d/f" THEN File(EditedDoc(items)) ELSE NoFile]
    /\ linear_client = TRUE
    /\ sync_on_edit = TRUE
    /\ remote = RemoteInit
    /\ run = [t \in Threads |-> IdleRun]
    /\ ret = NoRet
    /\ observer = 0
    /\ observers = <<>>
    /\ faults = 0
    /\ syncs = 0
    /\ events = 0

NextSync ==
    \/ sync_markdown_to_linear("f")
    \/ GetIssue(0)
    \/ GetStates(0)
    \/ UpdateIssue(0)
    \/ Return

SpecSync == InitSync /\ [][NextSync]_vars

\* The reconciler on a file that names one of the issues of the remote,
\* while the window creates issues.
NextFrame ==
    \/ NextSync
    \/ \E team_id \in Teams : create_issue(team_id)

SpecFrame == InitFrame /\ [][NextFrame]_vars

\* The reconciler on the remote of issues without a team reference.
SpecOrphan == InitOrphan /\ [][NextSync]_vars


(***************************************************************************)
(* The watcher.  An Observer is a thread of the watchdog library:          *)
(*   started  start() has started the thread;                              *)
(*   stopped  stop() has been called;                                      *)
(*   alive    the thread is running (it ends, once stopped, when the       *)
(*            handler it is in has returned);                              *)
(*   target, callback  the fields of its MarkdownFileHandler;              *)
(*   queue    the events waiting to be dispatched;                         *)
(*   handled  one entry per sync the handler started: did it raise;        *)
(*   called   the counts the callback was called with;                     *)
(*   ignored  the paths of the events on_modified returned from without a  *)
(*            sync;                                                        *)
(*   died     an exception left on_modified and ended the thread.          *)
(* threading.Thread.join raises RuntimeError on a thread never started.    *)
(* An event carries, next to is_directory and src_path, the mark repeat:   *)
(* it is a further event of a write that has already caused one.  The      *)
(* handler does not read it.                                               *)
(***************************************************************************)
\* The callback argument: None, or a function (which may raise when called).
Callbacks == {"none", "function"}

NewObserver(target_file, cb) ==
    [started |-> FALSE, stopped |-> FALSE, alive |-> FALSE, died |-> FALSE,
     target |-> Abspath(target_file), callback |-> cb, queue |-> <<>>,
     handled |-> <<>>, called |-> <<>>, ignored |-> <<>>]

\* Fault injection: join does not wait for the thread to end.
JoinNoWait(k) == observers[k].started

\* Fault injection: join returns once stop() was called, whatever the thread
\* is doing.
JoinAfterStop(k) == observers[k].started /\ observers[k].stopped

\* self.observer.join() returns: the thread was started and has ended.
JoinReturns(k) == observers[k].started /\ ~observers[k].alive

\* self.observer.stop() on the observer self.observer names.
StopObserver == [observers EXCEPT ![observer].stopped = TRUE]

\* Fault injection: start_watching does not look at the flag.
SyncOnEditIgnored == TRUE

\* self.config.get("markdown.sync_on_edit", True), read by start_watching.
SyncOnEditEnabled == sync_on_edit

\* start_watching, up to the join of the previous observer.
start_watching(filepath, callback) ==
    /\ run[0].pc = "idle"
    /\ Len(observers) < MaxObservers
    /\ IF ~SyncOnEditEnabled
       THEN /\ ret' = Returned("start")
            /\ UNCHANGED <<run, observers>>
       ELSE /\ ret' = NoRet
            /\ IF observer # 0
               THEN /\ observers' = StopObserver
                    /\ run' = [run EXCEPT ![0] = [IdleRun EXCEPT !.pc = "start_join",
                                   !.filepath = filepath, !.callback = callback]]
               ELSE /\ run' = [run EXCEPT ![0] = [IdleRun EXCEPT !.pc = "start_new",
                                   !.filepath = filepath, !.callback = callback]]
                    /\ UNCHANGED observers
    /\ UNCHANGED <<renderVars, files, configVars, remote, observer, faults, syncs, events>>

\* self.observer.join() in start_watching: it returns when the thread has ended.
StartJoin ==
    /\ run[0].pc = "start_join"
    /\ \/ /\ ~observers[observer].started        \* RuntimeError
          /\ run' = [run EXCEPT ![0] = IdleRun]
          /\ ret' = Raised("start")
       \/ /\ JoinReturns(observer)
          /\ run' = [run EXCEPT ![0].pc = "start_new"]
          /\ UNCHANGED ret
    /\ UNCHANGED <<renderVars, files, configVars, remote, watchVars, faults, syncs>>

\* self.observer = Observer(); schedule(...); start().
StartNew ==
    /\ run[0].pc = "start_new"
    /\ observer' = Len(observers) + 1
    /\ run' = [run EXCEPT ![0] = IdleRun]
    /\ LET new == NewObserver(run[0].filepath, run[0].callback)
       IN  \/ /\ faults < MaxFaults              \* schedule() or start() raises
              /\ faults' = faults + 1
              /\ observers' = Append(observers, new)
              /\ ret' = Raised("start")
           \/ /\ observers' = Append(observers, [new EXCEPT !.started = TRUE, !.alive = TRUE])
              /\ ret' = Returned("start")
              /\ UNCHANGED faults
    /\ UNCHANGED <<renderVars, files, configVars, remote, syncs, events>>

\* stop_watching, up to the join.
stop_watching ==
    /\ run[0].pc = "idle"
    /\ IF observer # 0
       THEN /\ observers' = StopObserver
            /\ run' = [run EXCEPT ![0] = [IdleRun EXCEPT !.pc = "stop_join"]]
            /\ ret' = NoRet
       ELSE /\ ret' = Returned("stop")
            /\ UNCHANGED <<run, observers>>
    /\ UNCHANGED <<renderVars, files, configVars, remote, observer, faults, syncs, events>>

\* self.observer.join(); self.observer = None.
StopJoin ==
    /\ run[0].pc = "stop_join"
    /\ run' = [run EXCEPT ![0] = IdleRun]
    /\ \/ /\ ~observers[observer].started        \* RuntimeError
          /\ ret' = Raised("stop")
          /\ UNCHANGED observer
       \/ /\ JoinReturns(observer)
          /\ observer' = 0
          /\ ret' = Returned("stop")
    /\ UNCHANGED <<renderVars, files, configVars, remote, observers, faults, syncs, events>>

\* The thread of observer k ends: stop() was called and no handler is running.
\* The events still queued are never dispatched.
ThreadExit(k) ==
    /\ k \in 1..Len(observers)
    /\ observers[k].alive
    /\ observers[k].stopped
    /\ run[k].pc = "idle"
    /\ observers' = [observers EXCEPT ![k].alive = FALSE, ![k].queue = <<>>]
    /\ UNCHANGED <<renderVars, files, configVars, remote, run, ret, observer,
                   faults, syncs, events>>

\* The events the emitter of a running observer queues for a write of path.
Emit(obs, ev, n) ==
    [k \in 1..Len(obs) |->
        IF obs[k].alive /\ ~obs[k].stopped
        THEN [obs[k] EXCEPT !.queue = @ \o [i \in 1..n |-> [ev EXCEPT !.repeat = (i > 1)]]]
        ELSE obs[k]]

\* The documents an editor leaves in a watched file.
WatchIds == {<<"a">>}
WatchDocs == {EditedDoc(<<[id |-> i, checked |-> c]>>) : i \in WatchIds, c \in BOOLEAN}

\* What an editor writes: a document into the watched file /d/f, the same
\* content again into the other file.
WrittenDocs(path) == IF path = "/d/f" THEN WatchDocs ELSE {files[path].content}

\* The file start_watching is called for.
WatchPaths == {"f"}

\* A write of the file path by an editor; the file system reports it in n
\* modification events.
Modify(path, doc, n) ==
    /\ events + n <= MaxEvents
    /\ events' = events + n
    /\ files' = [files EXCEPT ![path] = File(doc)]
    /\ observers' = Emit(observers, [is_directory |-> FALSE, src_path |-> path,
                                     repeat |-> FALSE], n)
    /\ UNCHANGED <<renderVars, configVars, remote, run, ret, observer, faults, syncs>>

\* A modification event of a subdirectory of the watched directory.
DirModified ==
    /\ events < MaxEvents
    /\ events' = events + 1
    /\ observers' = Emit(observers, [is_directory |-> TRUE, src_path |-> "/d/sub",
                                     repeat |-> FALSE], 1)
    /\ UNCHANGED <<renderVars, files, configVars, remote, run, ret, observer, faults, syncs>>

\* Fault injection: every event of a file qualifies.
QualifiesAnyFile(event, target_file) == ~event.is_directory

\* The event qualifies: not a directory event, and of the target file.
Qualifies(event, target_file) ==
    /\ ~event.is_directory
    /\ Abspath(event.src_path) = target_file

\* Fault injection: on_modified without its try/except.
HandlerLetsThrough == FALSE

\* What the handler does with an exception of the sync or of the callback:
\* except Exception as e: print(...).  TRUE: caught, the thread goes on.
HandlerCatches == TRUE

\* The observer after a sync of its handler has ended.
AfterHandler(o, raised) ==
    IF raised /\ ~HandlerCatches
    THEN [o EXCEPT !.handled = Append(@, raised), !.alive = FALSE, !.died = TRUE]
    ELSE [o EXCEPT !.handled = Append(@, raised)]

\* The thread of observer k takes an event from its queue and calls
\* on_modified, up to the for loop of sync_markdown_to_linear.
on_modified(k) ==
    /\ k \in 1..Len(observers)
    /\ observers[k].alive
    /\ ~observers[k].stopped
    /\ run[k].pc = "idle"
    /\ observers[k].queue # <<>>
    /\ LET event == Head(observers[k].queue)
           o == [observers[k] EXCEPT !.queue = Tail(@)]
       IN  IF ~Qualifies(event, o.target)
           THEN /\ observers' = [observers EXCEPT ![k] =
                                     [o EXCEPT !.ignored = Append(@, event.src_path)]]
                /\ UNCHANGED <<run, faults, files>>
           ELSE \/ /\ ~ClientConfigured          \* the sync raises
                   /\ observers' = [observers EXCEPT ![k] = AfterHandler(o, TRUE)]
                   /\ UNCHANGED <<run, faults, files>>
                \/ /\ ClientConfigured           \* open() or read() raises
                   /\ Exists(event.src_path)
                   /\ faults < MaxFaults
                   /\ faults' = faults + 1
                   /\ observers' = [observers EXCEPT ![k] = AfterHandler(o, TRUE)]
                   /\ UNCHANGED <<run, files>>
                \/ /\ ClientConfigured
                   /\ run' = [run EXCEPT ![k] = EnterLoop(event.src_path)]
                   /\ files' = FilesAfterParse(event.src_path)
                   /\ observers' = [observers EXCEPT ![k] = o]
                   /\ UNCHANGED faults
    /\ UNCHANGED <<renderVars, configVars, remote, ret, observer, syncs, events>>

\* Fault injection: the callback is called twice with the count.
CallCallbackTwice(o, count) == [o EXCEPT !.called = Append(Append(@, count), count)]

\* self.callback(count)
CallCallback(o, count) == [o EXCEPT !.called = Append(@, count)]

\* The sync returns its count to on_modified, which calls the callback.
HandlerReturn(k) ==
    /\ k \in 1..Len(observers)
    /\ run[k].pc = "get_issue"
    /\ run[k].idx > Len(run[k].updates)
    /\ run' = [run EXCEPT ![k].pc = "idle"]
    /\ LET o == observers[k]
           count == run[k].updated_count
       IN  \/ /\ o.callback = "none"            \* if self.callback: is false
              /\ observers' = [observers EXCEPT ![k] = AfterHandler(o, FALSE)]
              /\ UNCHANGED faults
           \/ /\ o.callback # "none"            \* self.callback(count) returns
              /\ observers' = [observers EXCEPT ![k] =
                     AfterHandler(CallCallback(o, count), FALSE)]
              /\ UNCHANGED faults
           \/ /\ o.callback # "none"            \* self.callback(count) raises
              /\ faults < MaxFaults
              /\ faults' = faults + 1
              /\ observers' = [observers EXCEPT ![k] =
                     AfterHandler(CallCallback(o, count), TRUE)]
    /\ UNCHANGED <<renderVars, files, configVars, remote, ret, observer, syncs, events>>

\* config.set("markdown.sync_on_edit", value)
SetSyncOnEdit ==
    /\ run[0].pc = "idle"
    /\ sync_on_edit' = ~sync_on_edit
    /\ UNCHANGED <<renderVars, files, linear_client, remote, run, ret, watchVars,
                   faults, syncs>>

Init ==
    /\ issues = <<>>
    /\ parsed = <<>>
    /\ team_file = NoTeamFile
    /\ \E doc \in WatchDocs : files = [p \in AbsPaths |-> File(doc)]
    /\ linear_client \in BOOLEAN
    /\ sync_on_edit \in BOOLEAN
    /\ remote = RemoteInit
    /\ run = [t \in Threads |-> IdleRun]
    /\ ret = NoRet
    /\ observer = 0
    /\ observers = <<>>
    /\ faults = 0
    /\ syncs = 0
    /\ events = 0

Next ==
    \/ \E filepath \in Paths : sync_markdown_to_linear(filepath)
    \/ \E t \in Threads : GetIssue(t)
    \/ \E t \in Threads : GetStates(t)
    \/ \E t \in Threads : UpdateIssue(t)
    \/ Return
    \/ \E filepath \in WatchPaths, callback \in Callbacks :
           start_watching(filepath, callback)
    \/ StartJoin
    \/ StartNew
    \/ stop_watching
    \/ StopJoin
    \/ \E k \in 1..MaxObservers : ThreadExit(k)
    \/ \E path \in AbsPaths, n \in 1..MaxEvents :
           \E doc \in WrittenDocs(path) : Modify(path, doc, n)
    \/ DirModified
    \/ \E k \in 1..MaxObservers : on_modified(k)
    \/ \E k \in 1..MaxObservers : HandlerReturn(k)
    \/ SetSyncOnEdit

Spec == Init /\ [][Next]_vars

(***************************************************************************)
(* The watcher alone: start_watching and stop_watching calls, file system  *)
(* events and the syncs of the handlers, with no direct call of            *)
(* sync_markdown_to_linear on the caller's thread.                         *)
(***************************************************************************)
NextWatch ==
    \/ \E k \in 1..MaxObservers : GetIssue(k)
    \/ \E k \in 1..MaxObservers : GetStates(k)
    \/ \E k \in 1..MaxObservers : UpdateIssue(k)
    \/ \E filepath \in WatchPaths, callback \in Callbacks :
           start_watching(filepath, callback)
    \/ StartJoin
    \/ StartNew
    \/ stop_watching
    \/ StopJoin
    \/ \E k \in 1..MaxObservers : ThreadExit(k)
    \/ \E path \in AbsPaths, n \in 1..MaxEvents :
           \E doc \in WrittenDocs(path) : Modify(path, doc, n)
    \/ DirModified
    \/ \E k \in 1..MaxObservers : on_modified(k)
    \/ \E k \in 1..MaxObservers : HandlerReturn(k)
    \/ SetSyncOnEdit

SpecWatch == Init /\ [][NextWatch]_vars


(***************************************************************************)
(* The renderer and the parser alone: generate_my_issues_md writes the     *)
(* rendering of an issue list to /d/f (my-issues.md in the output          *)
(* directory /d), and parse_markdown_file reads it back.                   *)
(***************************************************************************)
RenderIds == {<<"a">>, <<"b">>, <<"a", " ", "b">>}
RenderTitles == {<<"t">>, ID_OPEN \o <<"z">> \o ID_CLOSE}
RenderTypes == {"backlog", "unstarted", "started", "completed", "canceled", "bogus"}

\* The values of issue['state']: absent, without a type, or with one.
RenderStates ==
    {Absent, Val([name |-> Absent, type |-> Absent])}
      \cup {Val([name |-> Val(<<"S">>), type |-> Val(k)]) : k \in RenderTypes}

\* The issues of the lists rendered: a and b with a plain title in every
\* state, and issues whose id has a space or whose title is an id comment.
IssueSet ==
    [id : {Val(<<"a">>), Val(<<"b">>)}, identifier : {Val(<<"E">>)},
     title : {Val(<<"t">>)}, state : RenderStates]
      \cup {r \in [id : {Val(i) : i \in RenderIds}, identifier : {Val(<<"E">>)},
                   title : {Val(x) : x \in RenderTitles},
                   state : {Absent, Val([name |-> Val(<<"S">>), type |-> Val("started")])}] :
               r.id = Val(<<"a", " ", "b">>) \/ r.title # Val(<<"t">>)}

\* generate_my_issues_md(issues), up to open(filepath, 'w'): the file is
\* created, or emptied when it is there.
generate_my_issues_md ==
    /\ run[0].pc = "idle"
    /\ files' = [files EXCEPT !["/d/f"] = File(<<>>)]
    /\ run' = [run EXCEPT ![0] = [IdleRun EXCEPT !.pc = "generate"]]
    /\ ret' = NoRet
    /\ UNCHANGED <<renderVars, configVars, remote, watchVars, faults, syncs>>

\* f.write(content) at offset 0 of a file that holds old: the text, and
\* what old has beyond the length of the text.
WriteAtStart(text, old) == text \o SubSeq(old, Len(text) + 1, Len(old))

\* What the file at filepath holds once the text is written and the file
\* closed. The write goes to the file that open(filepath, 'w') has emptied.
\* When an editor has written the path since, it has either written into
\* that file, and the text goes over its document, or put a new file at
\* the path by renaming, and the path keeps the document of the editor.
WriteOutcomes(text, old) ==
    {WriteAtStart(text, old)} \cup (IF old # <<>> THEN {old} ELSE {})

\* f.write(content) and the end of the with block; return filepath.
GenerateWrite ==
    /\ run[0].pc = "generate"
    /\ \E text \in WriteOutcomes(generate_markdown_content(MY_TITLE, issues, MY_DESC),
                                  files["/d/f"].content) :
           files' = [files EXCEPT !["/d/f"] = File(text)]
    /\ run' = [run EXCEPT ![0] = IdleRun]
    /\ ret' = Returned("generate")
    /\ UNCHANGED <<renderVars, configVars, remote, watchVars, faults, syncs>>

\* A direct call of parse_markdown_file("f"), by the caller or, while the
\* caller is in another call, by another thread.
ParseFile ==
    /\ parsed' = parse_markdown_file("f")
    /\ ret' = Returned("parse")
    /\ UNCHANGED <<issues, team_file, files, configVars, remote, run, watchVars, faults, syncs>>

InitRender ==
    /\ issues \in SeqsUpTo(IssueSet, MaxIssues)
    /\ parsed = <<>>
    /\ team_file = NoTeamFile
    /\ files = [p \in AbsPaths |-> NoFile]
    /\ linear_client = FALSE
    /\ sync_on_edit = TRUE
    /\ remote = RemoteInit
    /\ run = [t \in Threads |-> IdleRun]
    /\ ret = NoRet
    /\ observer = 0
    /\ observers = <<>>
    /\ faults = 0
    /\ syncs = 0
    /\ events = 0

NextRender ==
    \/ generate_my_issues_md
    \/ GenerateWrite
    \/ ParseFile

SpecRender == InitRender /\ [][NextRender]_vars


(***************************************************************************)
(* The parser alone, on documents as a human leaves them: line items as    *)
(* rendered, line items whose id comment was deleted, and lines of notes.  *)
(***************************************************************************)
ParseIds == {<<"a">>, <<"b">>}

\* A line item after its id comment was deleted.
StrippedLine(checked) ==
    (IF checked THEN CHECKED ELSE UNCHECKED)
      \o <<" ", "*", "*", "E", "*", "*", ":", " ", "t", " ", "*", "[", "S", "]", "*">>

\* A line of text a human added.
NoteLine == <<"n", "o", "t", "e">>

\* The lines of a hand-edited document.
HandLines ==
    {EditedLine(i, c) : i \in ParseIds, c \in BOOLEAN}
      \cup {StrippedLine(c) : c \in BOOLEAN}
      \cup {NoteLine}

\* The document with the given lines below the rule.
HandDoc(lines) == Join(<<RULE, <<>>>> \o lines \o << <<>> >>)

InitParse ==
    /\ issues = <<>>
    /\ parsed = <<>>
    /\ team_file = NoTeamFile
    /\ \E lines \in SeqsUpTo(HandLines, MaxLines) :
           files = [p \in AbsPaths |-> IF p = "/d/f" THEN File(HandDoc(lines)) ELSE NoFile]
    /\ linear_client = FALSE
    /\ sync_on_edit = TRUE
    /\ remote = RemoteInit
    /\ run = [t \in Threads |-> IdleRun]
    /\ ret = NoRet
    /\ observer = 0
    /\ observers = <<>>
    /\ faults = 0
    /\ syncs = 0
    /\ events = 0

NextParse == ParseFile

SpecParse == InitParse /\ [][NextParse]_vars


(***************************************************************************)
(* The team and project files: generate_team_issues_md and                 *)
(* generate_project_issues_md name their file after the team or project.   *)
(* A name is a string over NameChars, or "Core Infra!!".                   *)
(***************************************************************************)
MaxName == 2         \* characters of a team or project name
MaxTeamFiles == 2    \* issues-{name}.md files in the output directory

NameChars == {"A", "b", "7", "-", "_", " ", "!", "é", "É"}
CORE_INFRA == <<"C", "o", "r", "e", " ", "I", "n", "f", "r", "a", "!", "!">>
Names == SeqsUpTo(NameChars, MaxName) \cup {CORE_INFRA}

\* str.lower() on one character of the names.
Lower(c) ==
    CASE c = "A" -> "a"
      [] c = "C" -> "c"
      [] c = "I" -> "i"
      [] c = "É" -> "é"
      [] OTHER -> c

\* \w of a str pattern: the letters and digits of Unicode, and '_'.
IsWord(c) ==
    c \in {"a", "b", "c", "e", "f", "i", "n", "o", "r", "A", "C", "I", "7", "_", "é", "É"}

\* re.sub(r'[^\w\-]', '_', name.lower())
safe_name(name) ==
    [i \in DOMAIN name |->
        IF IsWord(Lower(name[i])) \/ Lower(name[i]) = "-" THEN Lower(name[i]) ELSE "_"]

\* os.path.join(self.output_dir, f"issues-{safe_name}.md") with the output
\* directory /d.
IssuesPath(safe) ==
    <<"/", "d", "/", "i", "s", "s", "u", "e", "s", "-">> \o safe \o <<".", "m", "d">>

ISSUES_TITLE == <<"I", "s", "s", "u", "e", "s", ":", " ">>
TEAM_DESC == <<"A", "l", "l", " ", "i", "s", "s", "u", "e", "s", " ", "f", "o", "r", " ", "t", "e", "a", "m", " ">>
PROJECT_DESC == <<"A", "l", "l", " ", "i", "s", "s", "u", "e", "s", " ", "f", "o", "r", " ", "p", "r", "o", "j", "e", "c", "t", " ">>

\* open(filepath, 'w') and f.write(content) on the files issues-{name}.md of
\* the output directory: the file at filepath holds text, the others stay.
WriteTeamFile(dir, filepath, text) ==
    [p \in DOMAIN dir \cup {filepath} |-> IF p = filepath THEN text ELSE dir[p]]

\* The output directory has room for the file at filepath.
HasRoom(filepath) ==
    filepath \in DOMAIN team_file.dir \/ Cardinality(DOMAIN team_file.dir) < MaxTeamFiles

\* generate_team_issues_md(team_name, issues), up to open(filepath, 'w'): the
\* file issues-{safe_name}.md is created, or emptied when it is there.
generate_team_issues_md(team_name) ==
    /\ run[0].pc = "idle"
    /\ HasRoom(IssuesPath(safe_name(team_name)))
    /\ team_file' = [name |-> team_name,
                     filepath |-> IssuesPath(safe_name(team_name)),
                     dir |-> WriteTeamFile(team_file.dir, IssuesPath(safe_name(team_name)), <<>>)]
    /\ run' = [run EXCEPT ![0] = [IdleRun EXCEPT !.pc = "generate_team"]]
    /\ ret' = NoRet
    /\ UNCHANGED <<issues, parsed, files, configVars, remote, watchVars, faults, syncs>>

\* f.write(content) and the end of the with block of generate_team_issues_md;
\* return filepath.
TeamWrite ==
    /\ run[0].pc = "generate_team"
    /\ \E text \in WriteOutcomes(generate_markdown_content(ISSUES_TITLE \o team_file.name, issues,
                                                            TEAM_DESC \o team_file.name),
                                  team_file.dir[team_file.filepath]) :
           team_file' = [team_file EXCEPT !.dir =
                             WriteTeamFile(team_file.dir, team_file.filepath, text)]
    /\ run' = [run EXCEPT ![0] = IdleRun]
    /\ ret' = Returned("generate_team")
    /\ UNCHANGED <<issues, parsed, files, configVars, remote, watchVars, faults, syncs>>

\* generate_project_issues_md(project_name, issues), up to open(filepath, 'w').
generate_project_issues_md(project_name) ==
    /\ run[0].pc = "idle"
    /\ HasRoom(IssuesPath(safe_name(project_name)))
    /\ team_file' = [name |-> project_name,
                     filepath |-> IssuesPath(safe_name(project_name)),
                     dir |-> WriteTeamFile(team_file.dir, IssuesPath(safe_name(project_name)), <<>>)]
    /\ run' = [run EXCEPT ![0] = [IdleRun EXCEPT !.pc = "generate_project"]]
    /\ ret' = NoRet
    /\ UNCHANGED <<issues, parsed, files, configVars, remote, watchVars, faults, syncs>>

\* f.write(content) and the end of the with block of
\* generate_project_issues_md; return filepath.
ProjectWrite ==
    /\ run[0].pc = "generate_project"
    /\ \E text \in WriteOutcomes(generate_markdown_content(ISSUES_TITLE \o team_file.name, issues,
                                                            PROJECT_DESC \o team_file.name),
                                  team_file.dir[team_file.filepath]) :
           team_file' = [team_file EXCEPT !.dir =
                             WriteTeamFile(team_file.dir, team_file.filepath, text)]
    /\ run' = [run EXCEPT ![0] = IdleRun]
    /\ ret' = Returned("generate_project")
    /\ UNCHANGED <<issues, parsed, files, configVars, remote, watchVars, faults, syncs>>

InitNames ==
    /\ issues = <<>>
    /\ parsed = <<>>
    /\ team_file = NoTeamFile
    /\ files = [p \in AbsPaths |-> NoFile]
    /\ linear_client = FALSE
    /\ sync_on_edit = TRUE
    /\ remote = RemoteInit
    /\ run = [t \in Threads |-> IdleRun]
    /\ ret = NoRet
    /\ observer = 0
    /\ observers = <<>>
    /\ faults = 0
    /\ syncs = 0
    /\ events = 0

NextNames ==
    \/ \E team_name \in Names : generate_team_issues_md(team_name)
    \/ TeamWrite
    \/ \E project_name \in Names : generate_project_issues_md(project_name)
    \/ ProjectWrite

SpecNames == InitNames /\ [][NextNames]_vars


(***************************************************************************)
(* The parser on lines that hold two checkbox markers before one id        *)
(* comment, next to rendered line items and line items without id comment. *)
(***************************************************************************)
SpanIds == {<<"a">>}

\* A line with two checkboxes and the id comment after the second.
DoubleLine(first, second, id) ==
    (IF first THEN CHECKED ELSE UNCHECKED) \o <<" ", "o", " ">>
      \o (IF second THEN CHECKED ELSE UNCHECKED) \o <<" ", "t", " ">>
      \o ID_OPEN \o id \o ID_CLOSE

SpanLines ==
    {EditedLine(i, c) : i \in SpanIds, c \in BOOLEAN}
      \cup {StrippedLine(c) : c \in BOOLEAN}
      \cup {DoubleLine(c1, c2, i) : c1 \in BOOLEAN, c2 \in BOOLEAN, i \in SpanIds}

InitSpan ==
    /\ issues = <<>>
    /\ parsed = <<>>
    /\ team_file = NoTeamFile
    /\ \E lines \in SeqsUpTo(SpanLines, MaxLines) :
           files = [p \in AbsPaths |-> IF p = "/d/f" THEN File(HandDoc(lines)) ELSE NoFile]
    /\ linear_client = FALSE
    /\ sync_on_edit = TRUE
    /\ remote = RemoteInit
    /\ run = [t \in Threads |-> IdleRun]
    /\ ret = NoRet
    /\ observer = 0
    /\ observers = <<>>
    /\ faults = 0
    /\ syncs = 0
    /\ events = 0

SpecSpan == InitSpan /\ [][NextParse]_vars


(***************************************************************************)
(* The cycle of one file: generate_my_issues_md writes it, a human edits   *)
(* it, also while it is being written, and the caller syncs it.            *)
(***************************************************************************)
\* The issue list handed to generate_my_issues_md: the started issue a.
CycleIssues ==
    <<[id |-> Val(<<"a">>), identifier |-> Val(<<"E">>), title |-> Val(<<"t">>),
       state |-> Val([name |-> Val(<<"S">>), type |-> Val("started")])]>>

InitCycle ==
    /\ issues = CycleIssues
    /\ parsed = <<>>
    /\ team_file = NoTeamFile
    /\ \E f \in {NoFile} \cup {File(doc) : doc \in WatchDocs} :
           files = [p \in AbsPaths |-> IF p = "/d/f" THEN f ELSE NoFile]
    /\ linear_client = TRUE
    /\ sync_on_edit = TRUE
    /\ remote = RemoteInit
    /\ run = [t \in Threads |-> IdleRun]
    /\ ret = NoRet
    /\ observer = 0
    /\ observers = <<>>
    /\ faults = 0
    /\ syncs = 0
    /\ events = 0

NextCycle ==
    \/ generate_my_issues_md
    \/ GenerateWrite
    \/ \E doc \in WatchDocs : Modify("/d/f", doc, 1)
    \/ sync_markdown_to_linear("f")
    \/ GetIssue(0)
    \/ GetStates(0)
    \/ UpdateIssue(0)
    \/ Return

SpecCycle == InitCycle /\ [][NextCycle]_vars


(***************************************************************************)
(* Properties.                                                             *)
(***************************************************************************)
\* The number of positions of seq that hold x.
Count(seq, x) == Cardinality({i \in DOMAIN seq : seq[i] = x})

\* The two lists hold the same records, each as often, in any order.
SameRecords(a, b) ==
    /\ Len(a) = Len(b)
    /\ \A i \in DOMAIN a : Count(a, a[i]) = Count(b, a[i])

\* The record the round trip should give for an issue.
ExpectedRecord(issue) ==
    [id |-> Get(issue.id, <<>>), completed |-> IsCompletedType(state_type_of(issue))]

\* The direct call of sync_markdown_to_linear has returned its count.
SyncReturned == ret.op = "sync" /\ ~ret.raised

\* The ids of the updates of the frame on thread t, in order.
UpdateIds(t) == [i \in DOMAIN run[t].updates |-> run[t].updates[i].id]

\* The update_issue_state calls of the frame on thread t with the outcomes in O.
CallsWith(t, O) == {i \in DOMAIN run[t].upds : run[t].upds[i].outcome \in O}

\* The team has a workflow state of the type.
HasStateOfType(team_id, type) ==
    \E i \in DOMAIN WorkflowStates(team_id) : WorkflowStates(team_id)[i].type = type

\* generate_my_issues_md has returned and its file is there: the file holds
\* a whole rendering.
Generated == files["/d/f"].exists /\ run[0].pc # "generate"

\* C1: parsing the rendering of an issue list gives exactly one record per
\* issue, with the issue's id and completed = (state type is completed or
\* canceled), in any order.
C1_RoundTrip ==
    (ret.op = "parse" /\ Generated)
        => SameRecords(parsed, [i \in DOMAIN issues |-> ExpectedRecord(issues[i])])

\* C2: an update_issue_state call is made only for an intent that differs
\* from the remote completion of the issue, and only such calls are counted.
C2_NoRedundantWrite ==
    /\ \A i \in DOMAIN run[0].upds : run[0].upds[i].needed
    /\ run[0].updated_count <= Len(run[0].upds)
    /\ run[0].pc \in {"get_states", "update"}
         => IsCompletedType(remote[Update_(0).id].type) # Update_(0).completed

\* An issue already completed, with a checked box: no call, count 0.
C2_Witness ==
    /\ SyncReturned
    /\ run[0].updates = <<[id |-> <<"b">>, completed |-> TRUE]>>
    /\ run[0].gets = << <<"b">> >>
    /\ run[0].upds = <<>>
    /\ ret.value = 0

\* C3: a sync that entered its loop returns; it has fetched every intent of
\* the batch, whatever failed, and its count is the number of
\* update_issue_state calls that did not raise.
C3_PartialFailureIsolation ==
    /\ (ret.op = "sync" /\ ret.raised) => run[0] = IdleRun
    /\ SyncReturned =>
         /\ run[0].gets = UpdateIds(0)
         /\ ret.value = Cardinality(CallsWith(0, {"applied", "rejected"}))

\* Three issues that need a transition, the update of the second raises:
\* count 2.
C3_Witness ==
    /\ SyncReturned
    /\ Len(run[0].upds) = 3
    /\ run[0].upds[1].outcome = "applied"
    /\ run[0].upds[2].outcome = "raised"
    /\ run[0].upds[3].outcome = "applied"
    /\ run[0].upds[1].id # run[0].upds[2].id
    /\ run[0].upds[2].id # run[0].upds[3].id
    /\ run[0].upds[1].id # run[0].upds[3].id
    /\ ret.value = 2

\* C4: the count returned is the number of issues whose transition
\* succeeded on the remote.
C4_CountIsTransitions ==
    SyncReturned => ret.value = Cardinality(CallsWith(0, {"applied"}))

\* C6: no update_issue_state call is made for an issue whose team has no
\* state of the needed type; the issue is not counted, and the sync still
\* fetches every intent and returns.
C6_MissingStateSkip ==
    /\ \A i \in DOMAIN run[0].upds :
          HasStateOfType(Get(remote[run[0].upds[i].id].team, ""),
                         NeededType(run[0].upds[i].completed))
    /\ run[0].updated_count <= Len(run[0].upds)
    /\ SyncReturned => run[0].gets = UpdateIds(0)

\* Mark done and reopen in a team without the state, then a transition
\* that is possible.
C6_Witness ==
    /\ SyncReturned
    /\ run[0].updates = <<[id |-> <<"e">>, completed |-> TRUE],
                          [id |-> <<"d">>, completed |-> FALSE],
                          [id |-> <<"a">>, completed |-> TRUE]>>
    /\ Len(run[0].upds) = 1
    /\ run[0].upds[1].id = <<"a">>
    /\ run[0].upds[1].outcome = "applied"
    /\ ret.value = 1

\* C7: without a client, sync_markdown_to_linear raises before it parses
\* the file or makes any remote call.
C7_ConfigErrorFailsFast ==
    ~linear_client =>
        /\ run[0] = IdleRun
        /\ remote = RemoteInit
        /\ ret.op = "sync" => ret.raised

C7_Witness == ~linear_client /\ ret = Raised("sync") /\ files["/d/f"].content # EditedDoc(<<>>)


\* C5: syncs that overlap on the same file are safe: no transition is
\* applied twice, that is, every update_issue_state call of every run is
\* made while the remote completion of the issue still differs from the
\* intent.
C5_NoDoubleApply ==
    \A t \in Threads : \A i \in DOMAIN run[t].upds : run[t].upds[i].needed

\* The observers whose thread is running.
Running == {k \in DOMAIN observers : observers[k].alive}

\* C8: at most one observer is running, it is the one self.observer names,
\* and start_watching creates its new observer only when the thread of
\* the previous one has been stopped and has ended.
C8_NoDuplicateWatches ==
    /\ Cardinality(Running) <= 1
    /\ \A k \in Running : ~observers[k].stopped => observer = k
    /\ run[0].pc = "start_new" => Running = {}

\* start_watching was called while watching: the first observer is
\* stopped and joined, the second runs.
C8_Witness ==
    /\ Len(observers) = 2
    /\ observers[1].started /\ observers[1].stopped /\ ~observers[1].alive
    /\ observers[2].alive /\ ~observers[2].stopped
    /\ observer = 2
    /\ ret = Returned("start")

\* C9: stop_watching returns without error and leaves the instance not
\* watching, in every state start_watching and stop_watching can reach.
C9_StopWatchingSafe ==
    ret.op = "stop" => ~ret.raised /\ observer = 0

\* C10: an exception of the sync or of the callback never leaves
\* on_modified: the thread of an observer ends only when stop() was
\* called, so the events that follow are still dispatched.
C10_FailedSyncKeepsWatching ==
    \A k \in DOMAIN observers :
        /\ ~observers[k].died
        /\ (observers[k].started /\ ~observers[k].stopped) => observers[k].alive

\* A sync of the handler raised, and the next event started a sync that
\* ended without error.
C10_Witness ==
    \E k \in DOMAIN observers :
        /\ observers[k].alive
        /\ observers[k].handled = <<TRUE, FALSE>>


\* C11: a start_watching call made while markdown.sync_on_edit is false does
\* not go on to stop, join or create an observer and returns with
\* self.observer and the observers unchanged; a change of the flag leaves the
\* observers, running or not, and the calls in progress as they are.
C11_DisabledStartIsNoOp ==
    [][ /\ ~sync_on_edit => run'[0].pc \notin {"start_join", "start_new"}
        /\ (~sync_on_edit /\ ret' = Returned("start") /\ ret' # ret)
             => UNCHANGED <<observer, observers>>
        /\ sync_on_edit' # sync_on_edit => UNCHANGED <<observer, observers, run>> ]_vars

\* The flag is off and start_watching has returned: no observer exists, so
\* the call that returned is one made with the flag off.
C11_Witness ==
    /\ ~sync_on_edit
    /\ ret = Returned("start")
    /\ observers = <<>>
    /\ observer = 0

\* C12: with a client attached, a direct sync never raises to its caller: a
\* file that cannot be read is treated like a file with no intents, and the
\* sync of a missing file makes no remote call and returns 0.
C12_ReadFailureIsNoIntents ==
    /\ (ret.op = "sync" /\ ret.raised) => ~linear_client
    /\ (SyncReturned /\ ~files["/d/f"].exists)
         => ret.value = 0 /\ run[0].gets = <<>> /\ run[0].upds = <<>>

RECURSIVE Sorted(_)
\* The numbers of a finite set, ascending.
Sorted(S) == IF S = {} THEN <<>> ELSE <<Min(S)>> \o Sorted(S \ {Min(S)})

\* The positions where the lines of a text start.
LineStarts(s) ==
    IF s = <<>> THEN {} ELSE {1} \cup {i + 1 : i \in {j \in 1..(Len(s) - 1) : s[j] = NL}}

\* The line of s that starts at p, without its newline.
LineAt(s, p) == SubSeq(s, p, Min({i \in p..Len(s) : s[i] = NL} \cup {Len(s) + 1}) - 1)

\* The section headings of a document, top to bottom: its lines '## ...'.
HeadingsOf(s) ==
    LET ps == Sorted({p \in LineStarts(s) : LitAt(s, p, <<"#", "#", " ">>)})
    IN  [n \in DOMAIN ps |-> LineAt(s, ps[n])]

\* The category of an issue: its state type when it is one of the five,
\* unstarted otherwise.
CategoryOf(issue) ==
    IF /\ issue.state.has
       /\ issue.state.v.type.has
       /\ issue.state.v.type.v \in {"backlog", "unstarted", "started", "completed", "canceled"}
    THEN issue.state.v.type.v
    ELSE "unstarted"

\* The headings of the categories that have an issue, in the fixed order.
ExpectedHeadings(issueList) ==
    LET keys == SelectSeq(<<"backlog", "unstarted", "started", "completed", "canceled">>,
                          LAMBDA k : \E i \in DOMAIN issueList : CategoryOf(issueList[i]) = k)
    IN  [n \in DOMAIN keys |-> Heading(keys[n])]

\* C13: the section headings of the rendered document are exactly those of
\* the categories that have an issue, in the order backlog, unstarted,
\* started, completed, canceled, whatever the order of the issue list.
C13_SectionOrder ==
    Generated => HeadingsOf(files["/d/f"].content) = ExpectedHeadings(issues)

\* A list given against the fixed order (a completed or canceled issue
\* before a backlog or started one) has been rendered.
C13_Witness ==
    /\ files["/d/f"].exists
    /\ Len(issues) = 2
    /\ CategoryOf(issues[1]) \in {"completed", "canceled"}
    /\ CategoryOf(issues[2]) \in {"backlog", "started"}
    /\ Len(HeadingsOf(files["/d/f"].content)) = 2

\* The line items of the section of a document with the heading h, top to
\* bottom: the lines that start with a checkbox, after the heading line and
\* before the next heading.
ItemsUnder(s, h) ==
    LET hs == {p \in LineStarts(s) : LitAt(s, p, <<"#", "#", " ">>)}
        at == {p \in hs : LineAt(s, p) = h}
    IN  IF at = {} THEN <<>>
        ELSE LET hp == Min(at)
                 nh == Min({p \in hs : p > hp} \cup {Len(s) + 1})
                 ps == Sorted({p \in LineStarts(s) : p > hp /\ p < nh /\ MarkerAt(s, p)})
             IN  [n \in DOMAIN ps |-> LineAt(s, ps[n])]

\* The text ends with the suffix.
EndsWith(s, suffix) ==
    Len(s) >= Len(suffix) /\ SubSeq(s, Len(s) - Len(suffix) + 1, Len(s)) = suffix

\* The issue has no state, a state without a type, or a type that is not
\* one of the five categories.
UnknownState(issue) ==
    \/ ~issue.state.has
    \/ ~issue.state.v.type.has
    \/ issue.state.v.type.v \notin {"backlog", "unstarted", "started", "completed", "canceled"}

\* C14: every issue with a missing or unknown state type has its line item
\* in the Unstarted section, with an unchecked box; that section holds one
\* line item per issue of the category, all unchecked, and the rendering
\* is written.
C14_UnknownStateFallback ==
    Generated =>
        LET items == ItemsUnder(files["/d/f"].content, Heading("unstarted"))
        IN  /\ Len(items) =
                 Cardinality({i \in DOMAIN issues : CategoryOf(issues[i]) = "unstarted"})
            /\ \A n \in DOMAIN items : LitAt(items[n], 1, UNCHECKED)
            /\ \A i \in DOMAIN issues :
                 UnknownState(issues[i]) =>
                     \E n \in DOMAIN items :
                         EndsWith(items[n], ID_OPEN \o Get(issues[i].id, <<>>) \o ID_CLOSE)

\* A list with an issue of the type "bogus" and an issue without a state,
\* next to a completed one, has been rendered.
C14_Witness ==
    /\ files["/d/f"].exists
    /\ \E i \in DOMAIN issues :
           issues[i].state.has /\ issues[i].state.v.type = Val("bogus")
    /\ \E i \in DOMAIN issues : ~issues[i].state.has

\* The lines of a text, top to bottom.
LinesOf(s) ==
    LET ps == Sorted(LineStarts(s))
    IN  [n \in DOMAIN ps |-> LineAt(s, ps[n])]

\* The record a line gives when read on its own: a rendered line item gives
\* its checkbox and id, any other line gives nothing.
OwnRecords(line) ==
    IF \E i \in ParseIds, c \in BOOLEAN : line = EditedLine(i, c)
    THEN LET i == CHOOSE i \in ParseIds : \E c \in BOOLEAN : line = EditedLine(i, c)
         IN  <<[id |-> i, completed |-> LitAt(line, 1, CHECKED)]>>
    ELSE <<>>

\* C15: the parse of a document is the list of the records its lines give
\* on their own, in order: a checkbox line without an id comment gives no
\* record and does not take the id comment of a later line, and the other
\* lines keep their records.
C15_ParserSkip ==
    (ret.op = "parse" /\ files["/d/f"].exists)
        => parsed = Flatten([n \in DOMAIN LinesOf(files["/d/f"].content) |->
                                OwnRecords(LinesOf(files["/d/f"].content)[n])])

\* A document with a checked line without id comment just above an unchecked
\* line item has been parsed.
C15_Witness ==
    /\ ret.op = "parse"
    /\ LET lines == LinesOf(files["/d/f"].content)
       IN  \E n \in DOMAIN lines :
               /\ n + 1 \in DOMAIN lines
               /\ lines[n] = StrippedLine(TRUE)
               /\ \E i \in ParseIds : lines[n + 1] = EditedLine(i, FALSE)
    /\ parsed # <<>>

\* The characters of the names that are in [A-Za-z0-9_-].
AsciiNameChars == {"a", "b", "c", "e", "f", "i", "n", "o", "r", "A", "C", "I", "7", "_", "-"}

\* C16: the file of a team or project is issues-{s}.md, s being the
\* lowercased name with every character outside [A-Za-z0-9_-] replaced by
\* '_', so that s holds only characters of [a-z0-9_-].
C16_FilenameSanitization ==
    team_file.filepath # <<>> =>
        LET s == [i \in DOMAIN team_file.name |->
                     IF Lower(team_file.name[i]) \in AsciiNameChars
                     THEN Lower(team_file.name[i]) ELSE "_"]
        IN  /\ team_file.filepath = IssuesPath(s)
            /\ \A i \in DOMAIN s : s[i] \in AsciiNameChars \ {"A", "C", "I"}

\* C17: within one run of sync_markdown_to_linear, update_issue_state is
\* called at most once for any issue id, also when several lines of the
\* document carry the same id.
C17_OneTransitionPerIssue ==
    \A i, j \in DOMAIN run[0].upds :
        i # j => run[0].upds[i].id # run[0].upds[j].id

\* The state id is that of the first state of the type in the list
\* get_workflow_states returns for the team.
IsFirstOfType(state_id, team_id, type) ==
    LET states == WorkflowStates(team_id)
    IN  \E j \in DOMAIN states :
            /\ states[j].id = state_id
            /\ states[j].type = type
            /\ \A k \in 1..(j - 1) : states[k].type # type

\* C18: every update_issue_state call made to mark an issue done is made
\* for an issue that is not completed or canceled and passes the first
\* completed-type state of the issue's own team, in the order
\* get_workflow_states returns.
C18_MarkDoneState ==
    \A i \in DOMAIN run[0].upds :
        run[0].upds[i].completed =>
            /\ run[0].upds[i].needed
            /\ IsFirstOfType(run[0].upds[i].state_id,
                             Get(remote[run[0].upds[i].id].team, ""), "completed")

\* The started issue a of team T1, whose states list a canceled state before
\* the two completed ones, has been marked done.
C18_Witness ==
    /\ SyncReturned
    /\ run[0].updates = <<[id |-> <<"a">>, completed |-> TRUE]>>
    /\ Len(run[0].upds) = 1
    /\ run[0].upds[1].state_id = "d1"
    /\ run[0].upds[1].outcome = "applied"
    /\ remote[<<"a">>].type = "completed"

\* C19: every update_issue_state call made to reopen an issue is made for an
\* issue that is completed or canceled and passes the first unstarted-type
\* state of the issue's team, in the order get_workflow_states returns; every
\* call that returns is counted.
C19_ReopenState ==
    /\ \A i \in DOMAIN run[0].upds :
           ~run[0].upds[i].completed =>
               /\ run[0].upds[i].needed
               /\ IsFirstOfType(run[0].upds[i].state_id,
                                Get(remote[run[0].upds[i].id].team, ""), "unstarted")
    /\ run[0].updated_count = Cardinality(CallsWith(0, {"applied", "rejected"}))

\* The completed issue b of team T1, whose states list a backlog and a started
\* state before the two unstarted ones, has been reopened and counted.
C19_Witness ==
    /\ SyncReturned
    /\ run[0].updates = <<[id |-> <<"b">>, completed |-> FALSE]>>
    /\ Len(run[0].upds) = 1
    /\ run[0].upds[1].state_id = "u1"
    /\ run[0].upds[1].outcome = "applied"
    /\ remote[<<"b">>].type = "unstarted"
    /\ ret.value = 1

\* The issue has a team reference with an id.
HasTeamRef(issue_id) ==
    /\ remote[issue_id].team.has
    /\ remote[issue_id].team.v \notin {NONE, ""}

\* C20: for an issue without a team id, or with an empty record,
\* get_workflow_states and update_issue_state are never called; the issue is
\* not counted, and the sync still fetches every intent and returns.
C20_MissingTeamSkip ==
    /\ run[0].pc \in {"get_states", "update"} => HasTeamRef(Update_(0).id)
    /\ \A i \in DOMAIN run[0].upds : HasTeamRef(run[0].upds[i].id)
    /\ run[0].updated_count <= Len(run[0].upds)
    /\ (ret.op = "sync" /\ ret.raised) => run[0] = IdleRun
    /\ SyncReturned => run[0].gets = UpdateIds(0)

\* A reopen of the issue whose team is None and a mark-done of the empty
\* record, both skipped, then the started issue a marked done and counted.
C20_Witness ==
    /\ SyncReturned
    /\ run[0].updates = <<[id |-> <<"n">>, completed |-> FALSE],
                          [id |-> <<"o">>, completed |-> TRUE],
                          [id |-> <<"a">>, completed |-> TRUE]>>
    /\ run[0].gets = << <<"n">>, <<"o">>, <<"a">> >>
    /\ Len(run[0].upds) = 1
    /\ run[0].upds[1].id = <<"a">>
    /\ run[0].upds[1].outcome = "applied"
    /\ ret.value = 1

\* The positions of a text where a checkbox marker begins.
Markers(s) == {p \in 1..Len(s) : MarkerAt(s, p)}

\* The positions of a text where an id comment begins.
Comments(s) == {q \in 1..Len(s) : CommentAt(s, Spaces(s), q)}

\* The greatest element of a non-empty set of numbers.
Max(S) == CHOOSE x \in S : \A y \in S : y <= x

\* The id comments that have a checkbox marker before them with no other id
\* comment in between, top to bottom.
PairedComments(s) ==
    Sorted({q \in Comments(s) :
               \E p \in Markers(s) : p < q /\ \A r \in Comments(s) : ~(p < r /\ r < q)})

\* The record of the id comment at q: its id, and the checkbox of the
\* nearest marker before it.
NearestRecord(s, q) ==
    LET m == Max({p \in Markers(s) : p < q})
        r == q + Len(ID_OPEN)
    IN  [id |-> SubSeq(s, r, RunEnd(s, Spaces(s), r)),
         completed |-> (s[m + Len(MARK_OPEN)] = "x")]

\* C21: every id comment is paired with the nearest checkbox marker before
\* it: the parse of a document is, top to bottom, one record per id comment
\* preceded by a marker, with the checkbox of that nearest marker.
C21_NearestMarker ==
    (ret.op = "parse" /\ files["/d/f"].exists)
        => LET s == files["/d/f"].content
               qs == PairedComments(s)
           IN  parsed = [n \in DOMAIN qs |-> NearestRecord(s, qs[n])]

\* The line is a rendered line item: a checkbox and, after it, an id comment.
IsItemLine(line) == \E i \in ParseIds, c \in BOOLEAN : line = EditedLine(i, c)

\* C22: parse_markdown_file returns as many records as the document has
\* line items with an id comment, and the n-th record carries the id and
\* the checkbox of the n-th such line, whatever the lines around it hold.
C22_ParserOrder ==
    (ret.op = "parse" /\ files["/d/f"].exists)
        => LET items == SelectSeq(LinesOf(files["/d/f"].content), IsItemLine)
           IN  /\ Len(parsed) = Len(items)
               /\ \A n \in DOMAIN parsed :
                      items[n] = EditedLine(parsed[n].id, parsed[n].completed)

\* Three line items, b checked, a unchecked, b unchecked, have been parsed
\* into three records in that order.
C22_Witness ==
    /\ ret.op = "parse"
    /\ files["/d/f"].content =
           HandDoc(<<EditedLine(<<"b">>, TRUE), EditedLine(<<"a">>, FALSE),
                     EditedLine(<<"b">>, FALSE)>>)
    /\ parsed = <<[id |-> <<"b">>, completed |-> TRUE],
                  [id |-> <<"a">>, completed |-> FALSE],
                  [id |-> <<"b">>, completed |-> FALSE]>>

\* C23: in a rendered document, the line items of the Completed and Canceled
\* sections all have the box '- [x]', those of the Backlog, Unstarted and
\* Started sections all have the box '- [ ]', and the sections together
\* hold one line item per issue.
C23_CheckboxBySection ==
    Generated =>
        LET doc == files["/d/f"].content
            starts == LineStarts(doc)
            heads == {p \in starts : LitAt(doc, p, <<"#", "#", " ">>)}
            items == {p \in starts : MarkerAt(doc, p)}
            SectionOf(p) == LineAt(doc, Max({h \in heads : h < p}))
        IN  /\ Cardinality(items) = Len(issues)
            /\ \A p \in items :
                   /\ \E h \in heads : h < p
                   /\ SectionOf(p) \in {Heading("completed"), Heading("canceled")}
                        => LitAt(doc, p, CHECKED)
                   /\ SectionOf(p) \in {Heading("backlog"), Heading("unstarted"),
                                         Heading("started")}
                        => LitAt(doc, p, UNCHECKED)
                   /\ SectionOf(p) \in {Heading(StateTypes[k]) : k \in DOMAIN StateTypes}

\* A canceled issue and a started issue have been rendered, each into the
\* section of its type.
C23_Witness ==
    /\ files["/d/f"].exists
    /\ Len(issues) = 2
    /\ CategoryOf(issues[1]) = "canceled"
    /\ CategoryOf(issues[2]) = "started"
    /\ Len(ItemsUnder(files["/d/f"].content, Heading("canceled"))) = 1
    /\ Len(ItemsUnder(files["/d/f"].content, Heading("started"))) = 1

\* C24: the callback of a handler is called in exactly one kind of step,
\* the return of a sync run to on_modified, once, with the count the run
\* returns; in every other step, a sync that raises included, and for a
\* handler without callback, no call is made.
C24_CallbackOncePerSync ==
    [][ \A k \in DOMAIN observers :
          LET finished == run[k].pc = "get_issue" /\ run'[k].pc = "idle"
          IN  /\ (finished /\ observers[k].callback # "none")
                   => observers'[k].called =
                          Append(observers[k].called, run[k].updated_count)
              /\ ~(finished /\ observers[k].callback # "none")
                   => observers'[k].called = observers[k].called
              /\ Len(observers'[k].handled) > Len(observers[k].handled) /\ ~finished
                   => observers'[k].called = observers[k].called ]_vars

\* The first sync of a handler raised and its callback was not called; the
\* second marked the issue done and the callback was called once, with 1.
C24_Witness ==
    \E k \in DOMAIN observers :
        /\ observers[k].callback = "function"
        /\ observers[k].handled = <<TRUE, FALSE>>
        /\ observers[k].called = <<1>>

\* The handler of observer k starts a sync in this step: its thread enters
\* sync_markdown_to_linear, or the sync raises at once.
SyncStarts(k) ==
    /\ run[k].pc = "idle"
    /\ \/ run'[k].pc # "idle"
       \/ Len(observers'[k].handled) > Len(observers[k].handled)

\* C25: the handler of an observer starts a sync only on taking, from its
\* queue, an event that is not a directory event and whose path is the
\* absolute path of the file start_watching was called for; the sync then
\* reads that file, and an event of a directory or of another file of the
\* directory is dropped with no sync.
C25_WatcherFiltering ==
    [][ \A k \in DOMAIN observers :
          /\ SyncStarts(k) =>
               /\ observers[k].queue # <<>>
               /\ ~Head(observers[k].queue).is_directory
               /\ Head(observers[k].queue).src_path = Abspath("f")
               /\ observers[k].target = Abspath("f")
               /\ run'[k].pc # "idle" => Abspath(run'[k].filepath) = Abspath("f")
          /\ Len(observers'[k].ignored) > Len(observers[k].ignored) =>
               /\ ~SyncStarts(k)
               /\ UNCHANGED <<run, remote>> ]_vars

\* A handler has dropped a modification of the other file /d/g and has run
\* one sync, for the modification of the watched file.
C25_Witness ==
    \E k \in DOMAIN observers :
        /\ observers[k].ignored = <<"/d/g">>
        /\ observers[k].handled = <<FALSE>>
        /\ observers[k].queue = <<>>

\* C26: the events of one write of the watched file start the sync of a
\* handler at most once: a handler starts no sync on a further event of a
\* write whose first event it has been given.
C26_Debounce ==
    [][ \A k \in DOMAIN observers :
          SyncStarts(k) => ~Head(observers[k].queue).repeat ]_vars

\* C27: no step of a sync changes a file: a file changes only in the two
\* steps of generate_my_issues_md, which empties and then fills it, or in a
\* write by a human, and the updates a sync works on are the parse of the
\* file as the sync leaves it.
C27_SyncNeverWrites ==
    [][ /\ files' # files
             => \/ run[0].pc = "idle" /\ run'[0].pc = "generate"
                \/ run[0].pc = "generate" /\ ret' = Returned("generate")
                \/ events' > events
        /\ (syncs' # syncs
              \/ (run'[0] # run[0] /\ run[0].pc \in {"get_issue", "get_states", "update"}))
             => files' = files
        /\ (run[0].pc = "idle" /\ run'[0].pc = "get_issue")
             => run'[0].updates =
                    (IF files'["/d/f"].exists THEN ParseText(files'["/d/f"].content)
                     ELSE <<>>) ]_vars

\* A human has checked the box of a in the file and the file was synced:
\* the sync has marked a done and the file still holds the human's edit.
C27_Witness ==
    /\ SyncReturned
    /\ events = 1
    /\ issues = CycleIssues
    /\ files["/d/f"] = File(EditedDoc(<<[id |-> <<"a">>, checked |-> TRUE]>>))
    /\ run[0].upds # <<>>
    /\ remote[<<"a">>].type = "completed"

\* The text holds the id comment of the issue id.
Named(s, id) ==
    \E p \in {i \in 1..Len(s) : s[i] = "<"} : LitAt(s, p, ID_OPEN \o id \o ID_CLOSE)

\* C28: in every step of a sync, an update_issue_state call passes an issue
\* id of an id comment of the file; the issues of the remote stay the same
\* set, none created, each with its team; and only an issue whose id is in
\* an id comment of the file changes.
C28_SyncFrame ==
    [][ (syncs' # syncs \/ run'[0] # run[0]) =>
          /\ Len(run'[0].upds) > Len(run[0].upds)
               => /\ files["/d/f"].exists
                  /\ Named(files["/d/f"].content, run'[0].upds[Len(run'[0].upds)].id)
          /\ DOMAIN remote' = DOMAIN remote
          /\ \A id \in DOMAIN remote :
                 /\ remote'[id].team = remote[id].team
                 /\ remote'[id] # remote[id]
                      => files["/d/f"].exists /\ Named(files["/d/f"].content, id) ]_vars

\* The file names a only; the window has created an issue, the sync has
\* marked a done, and b, c, d and e are as they were.
C28_Witness ==
    /\ SyncReturned
    /\ run[0].updates = <<[id |-> <<"a">>, completed |-> TRUE]>>
    /\ Len(run[0].upds) = 1
    /\ remote[<<"a">>].type = "completed"
    /\ Created # {}
    /\ \A id \in IssueIds \ {<<"a">>} : remote[id] = RemoteInit[id]

\* The updates of the run name only issues of teams that have a state of
\* the completed type and one of the unstarted type.
TeamsHaveBothStates ==
    \A i \in DOMAIN run[0].updates :
        /\ run[0].updates[i].id \in DOMAIN remote
        /\ HasStateOfType(Get(remote[run[0].updates[i].id].team, ""), "completed")
        /\ HasStateOfType(Get(remote[run[0].updates[i].id].team, ""), "unstarted")

\* C29: when no call has failed or been rejected and the teams involved
\* have both states, a sync that follows a sync of the same file makes no
\* update_issue_state call and returns 0.
C29_Convergence ==
    (syncs >= 2 /\ faults = 0 /\ linear_client /\ TeamsHaveBothStates)
        => /\ run[0].upds = <<>>
           /\ SyncReturned => ret.value = 0

\* C30: from the return of stop_watching until the next call, whatever is
\* written to the files meanwhile, no thread of an observer is running, no
\* sync is in progress on one, no event waits in a queue, and self.observer
\* is None.
C30_StoppedMeansQuiet ==
    ret = Returned("stop") =>
        /\ observer = 0
        /\ \A k \in DOMAIN observers :
               /\ ~observers[k].alive
               /\ observers[k].queue = <<>>
        /\ \A k \in 1..MaxObservers : run[k].pc = "idle"

\* An observer ran one sync and was stopped; the file now holds a checked
\* box for a that no sync has acted on: a is still started.
C30_Witness ==
    /\ ret = Returned("stop")
    /\ faults = 0
    /\ events = 2
    /\ Len(observers) = 1
    /\ observers[1].handled = <<FALSE>>
    /\ observers[1].stopped
    /\ files["/d/f"] = File(EditedDoc(<<[id |-> <<"a">>, checked |-> TRUE]>>))
    /\ remote[<<"a">>].type = "started"
====
